---- MODULE Spec2Model ----
(***************************************************************************)
(* Complaint triage pipeline: classifier (ai_classifier.py), router and    *)
(* notification fan-out (router.py, email_handler.py), the complaints      *)
(* table (database.py) and the two ingestion handlers                      *)
(* (main.py process_single_complaint, api.py create_complaint).            *)
(*                                                                         *)
(* Strings the code searches or rewrites are sequences of one-character    *)
(* strings, so that `word in text` is a real substring test.               *)
(*                                                                         *)
(* One handler is in flight at a time (process_complaints is a sequential  *)
(* loop); its steps are cut at the external calls: the table, the AI       *)
(* service, SMTP and the Slack webhook.                                    *)
(***************************************************************************)
EXTENDS Integers, Sequences, FiniteSets, TLC

\* ------------------------------------------------------------------ bounds
MaxRequests == 2

\* Web-form requests are taken while the table holds fewer rows than this.
MaxStored == 1

\* Operator requests (update, resolve, escalate, reclassify, assign) served
\* on a stored complaint.
MaxOps == 2

\* The clock advances this far while operator requests are served.
MaxTime == 1

\* The complaints table holds at most this many rows when the dashboard
\* statistics are asked for.
MaxRows == 3

\* ----------------------------------------------------------- enumerations
CategorySet ==
    { "Billing Issue", "Product Defect", "Refund Request", "Technical Support",
      "Delivery Problem", "Account Issue", "General Inquiry" }

PrioritySet ==
    { "Urgent", "High", "Medium", "Low" }

SentimentSet ==
    { "Angry", "Frustrated", "Neutral", "Satisfied" }

\* A key the JSON object of the AI answer does not have.
Missing == "<missing>"

\* The outcome of a call that ended with an exception.
Raised == "<raised>"

\* ------------------------------------------------------------- characters
BillingWords ==
    { <<"b","i","l","l">>,
      <<"c","h","a","r","g","e">>,
      <<"p","a","y","m","e","n","t">>,
      <<"i","n","v","o","i","c","e">>,
      <<"s","u","b","s","c","r","i","p","t","i","o","n">> }

DefectWords ==
    { <<"b","r","o","k","e","n">>,
      <<"d","e","f","e","c","t","i","v","e">>,
      <<"n","o","t"," ","w","o","r","k","i","n","g">>,
      <<"m","a","l","f","u","n","c","t","i","o","n">> }

RefundWords ==
    { <<"r","e","f","u","n","d">>,
      <<"r","e","t","u","r","n">>,
      <<"c","a","n","c","e","l">>,
      <<"m","o","n","e","y"," ","b","a","c","k">> }

TechnicalWords ==
    { <<"t","e","c","h","n","i","c","a","l">>,
      <<"b","u","g">>,
      <<"e","r","r","o","r">>,
      <<"l","o","g","i","n">>,
      <<"p","a","s","s","w","o","r","d">> }

DeliveryWords ==
    { <<"d","e","l","i","v","e","r","y">>,
      <<"s","h","i","p","p","i","n","g">>,
      <<"l","a","t","e">>,
      <<"m","i","s","s","i","n","g">> }

AccountWords ==
    { <<"a","c","c","o","u","n","t">>,
      <<"p","r","o","f","i","l","e">>,
      <<"s","e","t","t","i","n","g","s">> }

UrgentWords ==
    { <<"u","r","g","e","n","t">>,
      <<"i","m","m","e","d","i","a","t","e","l","y">>,
      <<"a","s","a","p">>,
      <<"c","r","i","t","i","c","a","l">> }

HighWords ==
    { <<"b","r","o","k","e","n">>,
      <<"n","o","t"," ","w","o","r","k","i","n","g">>,
      <<"f","r","u","s","t","r","a","t","e","d">>,
      <<"a","n","g","r","y">> }

LowWords ==
    { <<"q","u","e","s","t","i","o","n">>,
      <<"i","n","f","o">>,
      <<"h","e","l","p">> }

AngryWords ==
    { <<"a","n","g","r","y">>,
      <<"f","u","r","i","o","u","s">>,
      <<"u","n","a","c","c","e","p","t","a","b","l","e">>,
      <<"t","e","r","r","i","b","l","e">> }

FrustratedWords ==
    { <<"f","r","u","s","t","r","a","t","e","d">>,
      <<"a","n","n","o","y","i","n","g">>,
      <<"d","i","s","a","p","p","o","i","n","t","e","d">> }

SatisfiedWords ==
    { <<"t","h","a","n","k">>,
      <<"g","o","o","d">>,
      <<"s","a","t","i","s","f","i","e","d">>,
      <<"h","a","p","p","y">> }

UpperChars == <<"A","B","C","D","E","F","G","H","I","J","K","L","M","N","O","P","Q","R","S","T","U","V","W","X","Y","Z">>
LowerChars == <<"a","b","c","d","e","f","g","h","i","j","k","l","m","n","o","p","q","r","s","t","u","v","w","x","y","z">>
Subject1 == <<"U","n","u","s","u","a","l"," ","c","h","a","r","g","e">>
Body1 == <<"C","h","a","r","g","e","d"," ","$","1","5","0"," ","f","o","r"," ","a"," ","s","e","r","v","i","c","e"," ","I"," ","n","e","v","e","r"," ","o","r","d","e","r","e","d","."," ","U","n","a","c","c","e","p","t","a","b","l","e",".">>
Subject2 == <<"B","r","o","k","e","n">>
Body2 == <<"F","i","x"," ","a","s","a","p">>
Subject3 == <<"H","e","l","l","o">>
Body3 == <<"T","h","a","n","k","s"," ","f","o","r"," ","t","h","e"," ","i","n","f","o">>
Subject4 == <<"L","a","t","e">>
Body4 == <<"I"," ","a","m"," ","a","n","g","r","y">>
Subject5 == <<"O","r","d","e","r"," ","#","1","2","3","4","5"," ","i","s","s","u","e">>
Body5 == <<"M","y"," ","o","r","d","e","r"," ","#","1","2","3","4","5"," ","f","o","r"," ","i","P","h","o","n","e"," ","1","5"," ","w","a","s"," ","d","e","l","i","v","e","r","e","d"," ","d","a","m","a","g","e","d","."," ","P","l","e","a","s","e"," ","c","a","l","l"," ","m","e"," ","a","t"," ","(","5","5","5",")"," ","1","2","3","-","4","5","6","7",".">>
Subject6 == <<"L","a","t","e"," ","r","e","f","u","n","d">>
Body6 == <<"B","i","l","l"," ","m","e">>
DigitChars == {"0","1","2","3","4","5","6","7","8","9"}

\* The messages used as inputs: subject and body of a complaint.
Mails ==
    { [subject |-> Subject1, body |-> Body1],
      [subject |-> Subject2, body |-> Body2],
      [subject |-> Subject3, body |-> Body3],
      [subject |-> Subject4, body |-> Body4],
      [subject |-> Subject5, body |-> Body5],
      [subject |-> Subject6, body |-> Body6] }

\* An e-mail without a text/plain part: _extract_body gives an empty body.
HtmlOnlyMail ==
    [subject |-> Subject3, body |-> <<>>]

\* The messages that come in through the mailbox.
InboxMails ==
    Mails \cup {HtmlOnlyMail}

\* The messages that come in through the web form.
WebMails ==
    { m \in Mails : m.subject \in {Subject1, Subject5} }

\* str.lower() on one character.
Lower(c) ==
    IF \E i \in 1..Len(UpperChars) : UpperChars[i] = c
    THEN LowerChars[CHOOSE i \in 1..Len(UpperChars) : UpperChars[i] = c]
    ELSE c

LowerStr(s) ==
    [i \in 1..Len(s) |-> Lower(s[i])]

\* Python's `w in text` on strings: w occurs as a substring of text.
Contains(text, w) ==
    \E i \in 1..(Len(text) - Len(w) + 1) : SubSeq(text, i, i + Len(w) - 1) = w

\* any(word in text for word in words)
ContainsAny(text, words) ==
    \E w \in words : Contains(text, w)

\* ------------------------------------------------------ regular expressions
\* str.upper() on one character.
Upper(c) ==
    IF \E i \in 1..Len(LowerChars) : LowerChars[i] = c
    THEN UpperChars[CHOOSE i \in 1..Len(LowerChars) : LowerChars[i] = c]
    ELSE c

\* The classes \w, \s and [-.\s] of Python's re on str.
WordChars ==
    { UpperChars[i] : i \in 1..Len(UpperChars) }
      \cup { LowerChars[i] : i \in 1..Len(LowerChars) }
      \cup DigitChars \cup {"_"}

SpaceChars ==
    { " ", "\t", "\n", "\r" }

SepChars ==
    { "-", "." } \cup SpaceChars

\* One piece of a pattern: a character class repeated min..max times, or
\* min and more times when unbounded; repetition is greedy.
Piece(cls, min, max, unbounded) ==
    [cls |-> cls, min |-> min, max |-> max, unbounded |-> unbounded]

One(cls) ==
    Piece(cls, 1, 1, FALSE)

Opt(cls) ==
    Piece(cls, 0, 1, FALSE)

Star(cls) ==
    Piece(cls, 0, 0, TRUE)

Plus(cls) ==
    Piece(cls, 1, 1, TRUE)

Times(cls, n) ==
    Piece(cls, n, n, FALSE)

AtLeast(cls, n) ==
    Piece(cls, n, n, TRUE)

\* A literal word under re.IGNORECASE.
IgnoreCase(w) ==
    [i \in 1..Len(w) |-> One({Lower(w[i]), Upper(w[i])})]

SetMax(S) ==
    CHOOSE x \in S : \A y \in S : y <= x

SetMin(S) ==
    CHOOSE x \in S : \A y \in S : x <= y

\* How many characters of cls follow one another in text from pos on.
RunLen(text, pos, cls) ==
    LET stops == { k \in pos..Len(text) : text[k] \notin cls }
    IN  IF stops = {} THEN Len(text) + 1 - pos ELSE SetMin(stops) - pos

\* The longest repetition a piece may take when run characters of its
\* class follow.
Longest(p, run) ==
    IF p.unbounded \/ run < p.max THEN run ELSE p.max

\* The backtracking match of pieces[k..] at pos: the position before each
\* of these pieces followed by the position after the match, or <<>> when
\* there is none.  A piece takes the longest run that lets the rest match.
RECURSIVE MatchFrom(_, _, _, _)
MatchPiece(pieces, k, text, pos, hi) ==
    LET rest == [ c \in pieces[k].min..hi |->
                    MatchFrom(pieces, k + 1, text, pos + c) ]
        good == { c \in pieces[k].min..hi : rest[c] # <<>> }
    IN  IF good = {} THEN <<>> ELSE <<pos>> \o rest[SetMax(good)]

MatchFrom(pieces, k, text, pos) ==
    IF k > Len(pieces) THEN <<pos>>
    ELSE MatchPiece(pieces, k, text, pos,
                    Longest(pieces[k], RunLen(text, pos, pieces[k].cls)))

\* The first of two matches that is one.
OrElse(m, other) ==
    IF m # <<>> THEN m ELSE other

\* The alternatives of a pattern tried in order at position i, from
\* alternative a on.
RECURSIVE MatchAlts(_, _, _, _)
MatchAlts(alts, a, text, i) ==
    IF a > Len(alts) THEN <<>>
    ELSE OrElse(MatchFrom(alts[a], 1, text, i),
                MatchAlts(alts, a + 1, text, i))

\* The positions of text where the pattern matches.
Hits(pattern, text) ==
    { i \in 1..(Len(text) + 1) : MatchAlts(pattern.alts, 1, text, i) # <<>> }

\* group(1) of the match m: from piece groupFrom to the end of the match.
Group(pattern, text, m) ==
    SubSeq(text, m[pattern.groupFrom], m[Len(m)] - 1)

\* The group of the leftmost match, hits being the positions that match.
Leftmost(pattern, text, hits) ==
    IF hits = {} THEN <<>>
    ELSE Group(pattern, text,
               MatchAlts(pattern.alts, 1, text, SetMin(hits)))

\* re.search(pattern, text).group(1), or <<>> when nothing matches.
ReSearch(pattern, text) ==
    Leftmost(pattern, text, Hits(pattern, text))

\* order_patterns of _extract_additional_entities, compiled with
\* re.IGNORECASE.
OrderPatterns ==
    << [alts |-> << IgnoreCase(<<"o","r","d","e","r">>)
                      \o << Star(SpaceChars), Opt({"#"}), Star(SpaceChars),
                            Plus(WordChars) >> >>,
        groupFrom |-> 9],
       [alts |-> << IgnoreCase(<<"o","r","d","e","r">>)
                      \o << Star(SpaceChars) >>
                      \o IgnoreCase(<<"n","u","m","b","e","r">>)
                      \o << Star(SpaceChars), Opt({":"}), Star(SpaceChars),
                            Plus(WordChars) >> >>,
        groupFrom |-> 16],
       [alts |-> << << One({"#"}), AtLeast(WordChars, 6) >> >>,
        groupFrom |-> 2],
       [alts |-> << IgnoreCase(<<"r","e","f">>)
                      \o << Star(SpaceChars), Opt({":"}), Star(SpaceChars),
                            Plus(WordChars) >> >>,
        groupFrom |-> 7] >>

\* phone_pattern: the group is the whole match.
PhonePattern ==
    [alts |-> << << Opt({"+"}), Opt({"1"}), Opt(SepChars), Opt({"("}),
                    Times(DigitChars, 3), Opt({")"}), Opt(SepChars),
                    Times(DigitChars, 3), Opt(SepChars),
                    Times(DigitChars, 4) >> >>,
     groupFrom |-> 1]

\* amount_pattern: the cents are an optional group, taken when they match.
AmountPattern ==
    [alts |-> << << One({"$"}), Plus(DigitChars), One({"."}),
                    Times(DigitChars, 2) >>,
                 << One({"$"}), Plus(DigitChars) >> >>,
     groupFrom |-> 2]

\* An entity that is absent or empty is <<>>: the code tests both with
\* `not entities.get(key)`.
NoEntities ==
    [order_number |-> <<>>, phone_number |-> <<>>, amount |-> <<>>]

\* The first of the patterns, from n on, that matches.
RECURSIVE FirstOrderMatch(_, _, _)
FirstOrderMatch(patterns, text, n) ==
    IF n > Len(patterns) THEN <<>>
    ELSE OrElse(ReSearch(patterns[n], text),
                FirstOrderMatch(patterns, text, n + 1))

\* The three searches of _extract_additional_entities in "subject body".
SearchText(text) ==
    [order_number |-> FirstOrderMatch(OrderPatterns, text, 1),
     phone_number |-> ReSearch(PhonePattern, text),
     amount |-> ReSearch(AmountPattern, text)]

SearchEntities(subject, body) ==
    SearchText(subject \o <<" ">> \o body)

\* The searches on each input message, computed once.
MailMatches ==
    [ m \in InboxMails |-> SearchEntities(m.subject, m.body) ]

\* An entity the AI gave is kept, a missing one is taken from the first
\* match.
MergeEntities(existing, found) ==
    [order_number |-> IF existing.order_number = <<>>
                      THEN found.order_number
                      ELSE existing.order_number,
     phone_number |-> IF existing.phone_number = <<>>
                      THEN found.phone_number
                      ELSE existing.phone_number,
     amount |-> IF existing.amount = <<>> /\ found.amount # <<>>
                THEN <<"$">> \o found.amount
                ELSE existing.amount]

\* _extract_additional_entities.
ExtractAdditionalEntities(subject, body, existing) ==
    MergeEntities(existing, MailMatches[[subject |-> subject, body |-> body]])

\* ------------------------------------------------------------- classifier
\* What the AI service does on one call.  kind "error": the call raises;
\* "nojson": the text has no {...}; "badjson": it has one that json.loads
\* rejects; "json": a JSON object, whose keys may be missing, with values in
\* or out of the enumerations; entities is its 'key_entities' object.
AIAnswers ==
    { [kind |-> "json", category |-> "Billing Issue", priority |-> "High",
       sentiment |-> "Frustrated", hasSummary |-> TRUE,
       entities |-> [NoEntities EXCEPT
                       !.amount = <<"$","9","9",".","0","0">>]],
      [kind |-> "json", category |-> "Product Defect", priority |-> "Urgent",
       sentiment |-> "Angry", hasSummary |-> TRUE,
       entities |-> NoEntities],
      [kind |-> "json", category |-> "Refund Request", priority |-> "Medium",
       sentiment |-> "Neutral", hasSummary |-> TRUE,
       entities |-> NoEntities],
      [kind |-> "json", category |-> "Technical Support", priority |-> "High",
       sentiment |-> "Neutral", hasSummary |-> TRUE,
       entities |-> NoEntities],
      [kind |-> "json", category |-> "Delivery Problem", priority |-> "Low",
       sentiment |-> "Satisfied", hasSummary |-> TRUE,
       entities |-> NoEntities],
      [kind |-> "json", category |-> "Account Issue", priority |-> "Medium",
       sentiment |-> "Frustrated", hasSummary |-> TRUE,
       entities |-> NoEntities],
      [kind |-> "json", category |-> "General Inquiry", priority |-> "Low",
       sentiment |-> "Neutral", hasSummary |-> TRUE,
       entities |-> NoEntities],
      [kind |-> "json", category |-> "Spam", priority |-> "Critical",
       sentiment |-> "Furious", hasSummary |-> TRUE,
       entities |-> NoEntities],
      [kind |-> "json", category |-> Missing, priority |-> Missing,
       sentiment |-> Missing, hasSummary |-> TRUE,
       entities |-> NoEntities],
      [kind |-> "json", category |-> "Billing Issue", priority |-> "Urgent",
       sentiment |-> Missing, hasSummary |-> FALSE,
       entities |-> NoEntities],
      [kind |-> "nojson", category |-> Missing, priority |-> Missing,
       sentiment |-> Missing, hasSummary |-> FALSE,
       entities |-> NoEntities],
      [kind |-> "badjson", category |-> Missing, priority |-> Missing,
       sentiment |-> Missing, hasSummary |-> FALSE,
       entities |-> NoEntities],
      [kind |-> "error", category |-> Missing, priority |-> Missing,
       sentiment |-> Missing, hasSummary |-> FALSE,
       entities |-> NoEntities] }

\* A classification dict: the three classified fields, whether the keys
\* 'summary' and 'suggested_action' are present, and the Python type and
\* the entries of 'key_entities'.
Classification(c, p, s, sum) ==
    [raised |-> FALSE, category |-> c, priority |-> p, sentiment |-> s,
     hasSummary |-> sum, key_entities |-> "dict", entities |-> NoEntities]

\* The classifier call ended with an exception instead of a dict.
RaisedClassification ==
    [raised |-> TRUE, category |-> Raised, priority |-> Raised,
     sentiment |-> Raised, hasSummary |-> FALSE, key_entities |-> Raised,
     entities |-> NoEntities]

\* Variant: the default priority is Low.
GetDefaultClassification_LowPriority ==
    Classification("General Inquiry", "Low", "Neutral", TRUE)

\* _get_default_classification: what a response without usable JSON gives.
GetDefaultClassification ==
    Classification("General Inquiry", "Medium", "Neutral", TRUE)

\* json found and loaded: absent required keys become 'Unknown'; no JSON or
\* a JSONDecodeError: the default classification.
ParseClaudeResponse(ai) ==
    IF ai.kind = "json"
    THEN [Classification(
            IF ai.category = Missing THEN "Unknown" ELSE ai.category,
            IF ai.priority = Missing THEN "Unknown" ELSE ai.priority,
            IF ai.sentiment = Missing THEN "Unknown" ELSE ai.sentiment,
            ai.hasSummary)
          EXCEPT !.entities = ai.entities]
    ELSE GetDefaultClassification

\* Variant: the enhancement keeps the parsed values without validating them.
EnhanceClassification_NoClamp(c) ==
    Classification(c.category, c.priority, c.sentiment, c.hasSummary)

EnhanceClassification(c) ==
    Classification(
      IF c.category \notin CategorySet THEN "General Inquiry" ELSE c.category,
      IF c.priority \notin PrioritySet THEN "Medium" ELSE c.priority,
      IF c.sentiment \notin SentimentSet THEN "Neutral" ELSE c.sentiment,
      c.hasSummary)

\* Variant: the delivery keywords are looked for first.
FallbackCategory_DeliveryFirst(text) ==
    IF ContainsAny(text, DeliveryWords) THEN "Delivery Problem"
    ELSE IF ContainsAny(text, BillingWords) THEN "Billing Issue"
    ELSE IF ContainsAny(text, DefectWords) THEN "Product Defect"
    ELSE IF ContainsAny(text, RefundWords) THEN "Refund Request"
    ELSE IF ContainsAny(text, TechnicalWords) THEN "Technical Support"
    ELSE IF ContainsAny(text, AccountWords) THEN "Account Issue"
    ELSE "General Inquiry"

\* The if/elif chain on the category of _get_fallback_classification.
FallbackCategory(text) ==
    IF ContainsAny(text, BillingWords) THEN "Billing Issue"
    ELSE IF ContainsAny(text, DefectWords) THEN "Product Defect"
    ELSE IF ContainsAny(text, RefundWords) THEN "Refund Request"
    ELSE IF ContainsAny(text, TechnicalWords) THEN "Technical Support"
    ELSE IF ContainsAny(text, DeliveryWords) THEN "Delivery Problem"
    ELSE IF ContainsAny(text, AccountWords) THEN "Account Issue"
    ELSE "General Inquiry"

FallbackPriority(text) ==
    IF ContainsAny(text, UrgentWords) THEN "Urgent"
    ELSE IF ContainsAny(text, HighWords) THEN "High"
    ELSE IF ContainsAny(text, LowWords) THEN "Low"
    ELSE "Medium"

FallbackSentiment(text) ==
    IF ContainsAny(text, AngryWords) THEN "Angry"
    ELSE IF ContainsAny(text, FrustratedWords) THEN "Frustrated"
    ELSE IF ContainsAny(text, SatisfiedWords) THEN "Satisfied"
    ELSE "Neutral"

\* The keyword rules of _get_fallback_classification on the lower-cased
\* "subject body", and the entities of the text.
KeywordClassification(mail) ==
    LET text == LowerStr(mail.subject \o <<" ">> \o mail.body)
    IN  [Classification(FallbackCategory(text), FallbackPriority(text),
                        FallbackSentiment(text), TRUE)
         EXCEPT !.entities = ExtractAdditionalEntities(mail.subject, mail.body,
                                                       NoEntities)]

\* The keyword rules on each input message, computed once.
MailFallbacks ==
    [ m \in InboxMails |-> KeywordClassification(m) ]

GetFallbackClassification(mail) ==
    MailFallbacks[mail]

\* The body of the try block of classify_complaint: the API call, the
\* parse and the enhancement, which validates the three fields and then
\* completes the entities from the text.
TryClassify(mail, ai) ==
    IF ai.kind = "error"
    THEN RaisedClassification
    ELSE LET parsed == ParseClaudeResponse(ai)
         IN  [EnhanceClassification(parsed)
              EXCEPT !.entities = ExtractAdditionalEntities(
                                    mail.subject, mail.body, parsed.entities)]

\* Variant: no except clause around the try block.
ClassifyComplaint_NoExcept(mail, ai) ==
    TryClassify(mail, ai)

\* classify_complaint: the try block, and the fallback on any exception.
ClassifyComplaint(mail, ai) ==
    LET r == TryClassify(mail, ai)
    IN  IF r.raised THEN GetFallbackClassification(mail) ELSE r

\* ----------------------------------------------------------------- router
ManagerEmail == "manager@company.com"

GeneralTeamEmail == "support@company.com"

SlackWebhook == "slack-webhook"

\* config.get_team_email: team_mapping.get(category, general_team_email)
GetTeamEmail(category) ==
    CASE category = "Billing Issue" -> "billing@company.com"
      [] category = "Product Defect" -> "tech@company.com"
      [] category = "Refund Request" -> "refunds@company.com"
      [] category = "Technical Support" -> "tech@company.com"
      [] category = "Delivery Problem" -> "delivery@company.com"
      [] category = "Account Issue" -> "accounts@company.com"
      [] category = "General Inquiry" -> GeneralTeamEmail
      [] OTHER -> GeneralTeamEmail

DetermineAssignedTeam(category) ==
    CASE category = "Billing Issue" -> "Billing Team"
      [] category = "Product Defect" -> "Technical Team"
      [] category = "Refund Request" -> "Refunds Team"
      [] category = "Technical Support" -> "Technical Team"
      [] category = "Delivery Problem" -> "Delivery Team"
      [] category = "Account Issue" -> "Account Team"
      [] category = "General Inquiry" -> "General Support Team"
      [] OTHER -> "General Support Team"

\* Variant: High escalates like Urgent.
DetermineEscalationActions_HighAsUrgent(priority) ==
    CASE priority = "Urgent" -> <<"manager", "team">>
      [] priority = "High" -> <<"manager", "team">>
      [] priority = "Medium" -> <<"team">>
      [] priority = "Low" -> <<"team">>
      [] OTHER -> <<"team">>

\* escalation_rules.get(priority, ['team'])
DetermineEscalationActions(priority) ==
    CASE priority = "Urgent" -> <<"manager", "team">>
      [] priority = "High" -> <<"manager">>
      [] priority = "Medium" -> <<"team">>
      [] priority = "Low" -> <<"team">>
      [] OTHER -> <<"team">>

\* Variant: the fallback keeps the team of the category.
GetFallbackRouting_KeepsTeam(data) ==
    [complaint_id |-> data.id,
     assigned_team |-> DetermineAssignedTeam(data.category),
     team_email |-> GeneralTeamEmail,
     priority |-> "Medium",
     escalation_actions |-> <<"team">>,
     status |-> "routed_fallback"]

GetFallbackRouting(data) ==
    [complaint_id |-> data.id,
     assigned_team |-> "General Support Team",
     team_email |-> GeneralTeamEmail,
     priority |-> "Medium",
     escalation_actions |-> <<"team">>,
     status |-> "routed_fallback"]

\* route_complaint: lookupFails is an exception raised inside the try block.
RouteComplaint(data, lookupFails) ==
    IF lookupFails
    THEN GetFallbackRouting(data)
    ELSE [complaint_id |-> data.id,
          assigned_team |-> DetermineAssignedTeam(data.category),
          team_email |-> GetTeamEmail(data.category),
          priority |-> data.priority,
          escalation_actions |-> DetermineEscalationActions(data.priority),
          status |-> "routed"]

\* --------------------------------------------------------------- notifier
Channels ==
    { "ack", "team", "slack", "escalation" }

Elems(seq) ==
    { seq[i] : i \in 1..Len(seq) }

\* EmailHandler.send_acknowledgment_email: every failure is caught and
\* reported as False.
SendAcknowledgmentEmail(smtpOk) ==
    IF smtpOk THEN "sent" ELSE "failed"

\* Variant: an SMTP failure is not caught.
EmailSendTeamNotification_Raises(smtpOk) ==
    IF smtpOk THEN "sent" ELSE Raised

\* EmailHandler.send_team_notification: every failure is caught and reported
\* as False.
EmailSendTeamNotification(smtpOk) ==
    IF smtpOk THEN "sent" ELSE "failed"

\* Variant: the guard looks at the webhook only.
ShouldSendSlack_AnyPriority(webhookSet, priority) ==
    webhookSet

\* The guard of the Slack call in ComplaintRouter.send_team_notification.
ShouldSendSlack(webhookSet, priority) ==
    webhookSet /\ priority \in {"Urgent", "High"}

\* _send_slack_notification: no webhook, a status other than 200 or an
\* exception give False.
SendSlackNotification(webhookSet, httpOk) ==
    IF ~webhookSet THEN "failed"
    ELSE IF httpOk THEN "sent" ELSE "failed"

\* What the message templates read of the dict they are given: how its
\* 'subject' starts ("customer": the customer's own subject) and whether it
\* has the key 'escalation_reason'.
ComplaintNotice ==
    [subject |-> "customer", escalation_reason |-> FALSE]

\* _create_manager_notification: the complaint with an escalation subject
\* and the reason of the escalation.
CreateManagerNotification(notice) ==
    [notice EXCEPT !.subject = "ESCALATION:", !.escalation_reason = TRUE]

\* The message EmailHandler.send_team_notification builds from a dict:
\* header is how its Subject header starts ("New <priority> Priority
\* Complaint - #<id>"), body_subject the subject its text prints, reason
\* whether its text has the escalation reason (the template does not read
\* that key).
TeamNotificationMessage(notice) ==
    [header |-> "New", body_subject |-> notice.subject, reason |-> FALSE]

\* The acknowledgment and the Slack payload: their content is not modelled.
NoMessage ==
    [header |-> "none", body_subject |-> "none", reason |-> FALSE]

\* Variant: the manager is written to whatever the escalation actions are.
SendEscalationNotifications_Always(routing, smtpOk) ==
    LET r == EmailSendTeamNotification(smtpOk)
    IN  [attempts |-> {[channel |-> "escalation", to |-> ManagerEmail,
                        outcome |-> r,
                        msg |-> TeamNotificationMessage(ComplaintNotice)]},
         result |-> IF r = "sent" THEN "sent" ELSE "failed"]

\* _send_escalation_notifications: the attempts it makes and its result.
\* manager_notification is built and then complaint_data is what is passed
\* to send_team_notification.
SendEscalationNotifications(routing, smtpOk) ==
    IF "manager" \in Elems(routing.escalation_actions)
    THEN LET manager_notification == CreateManagerNotification(ComplaintNotice)
             r == EmailSendTeamNotification(smtpOk)
         IN  [attempts |-> {[channel |-> "escalation", to |-> ManagerEmail,
                             outcome |-> r,
                             msg |-> TeamNotificationMessage(ComplaintNotice)]},
              result |-> IF r = "sent" THEN "sent" ELSE "failed"]
    ELSE [attempts |-> {}, result |-> "sent"]

\* Variant: the team is written to only when "team" is an escalation action.
RouterSendTeamNotification_TeamOnAction(routing, webhookSet, teamOk, slackOk, escOk) ==
    LET toTeam == "team" \in Elems(routing.escalation_actions)
        r1 == IF toTeam THEN EmailSendTeamNotification(teamOk) ELSE "failed"
        a1 == IF toTeam
              THEN {[channel |-> "team", to |-> routing.team_email,
                     outcome |-> r1,
                     msg |-> TeamNotificationMessage(ComplaintNotice)]}
              ELSE {}
        doSlack == ShouldSendSlack(webhookSet, routing.priority)
        r2 == IF doSlack THEN SendSlackNotification(webhookSet, slackOk)
              ELSE "failed"
        a2 == IF doSlack
              THEN {[channel |-> "slack", to |-> SlackWebhook, outcome |-> r2,
                     msg |-> NoMessage]}
              ELSE {}
        e  == SendEscalationNotifications(routing, escOk)
    IN  IF r1 = Raised
        THEN [attempts |-> a1, logged |-> FALSE, ret |-> FALSE,
              flags |-> [email_sent |-> FALSE, slack_sent |-> FALSE,
                         escalation_sent |-> FALSE]]
        ELSE IF r2 = Raised
        THEN [attempts |-> a1 \cup a2, logged |-> FALSE, ret |-> FALSE,
              flags |-> [email_sent |-> r1 = "sent", slack_sent |-> FALSE,
                         escalation_sent |-> FALSE]]
        ELSE [attempts |-> a1 \cup a2 \cup e.attempts, logged |-> TRUE,
              ret |-> r1 = "sent",
              flags |-> [email_sent |-> r1 = "sent", slack_sent |-> r2 = "sent",
                         escalation_sent |-> e.result = "sent"]]

\* ComplaintRouter.send_team_notification: team email, then Slack, then the
\* escalation; an exception that reaches its try block ends it with False.
\* flags are the locals email_sent, slack_sent, escalation_sent it logs;
\* ret is the value it returns.
RouterSendTeamNotification(routing, webhookSet, teamOk, slackOk, escOk) ==
    LET r1 == EmailSendTeamNotification(teamOk)
        a1 == {[channel |-> "team", to |-> routing.team_email, outcome |-> r1,
                msg |-> TeamNotificationMessage(ComplaintNotice)]}
        doSlack == ShouldSendSlack(webhookSet, routing.priority)
        r2 == IF doSlack THEN SendSlackNotification(webhookSet, slackOk)
              ELSE "failed"
        a2 == IF doSlack
              THEN {[channel |-> "slack", to |-> SlackWebhook, outcome |-> r2,
                     msg |-> NoMessage]}
              ELSE {}
        e  == SendEscalationNotifications(routing, escOk)
    IN  IF r1 = Raised
        THEN [attempts |-> a1, logged |-> FALSE, ret |-> FALSE,
              flags |-> [email_sent |-> FALSE, slack_sent |-> FALSE,
                         escalation_sent |-> FALSE]]
        ELSE IF r2 = Raised
        THEN [attempts |-> a1 \cup a2, logged |-> FALSE, ret |-> FALSE,
              flags |-> [email_sent |-> r1 = "sent", slack_sent |-> FALSE,
                         escalation_sent |-> FALSE]]
        ELSE [attempts |-> a1 \cup a2 \cup e.attempts, logged |-> TRUE,
              ret |-> r1 = "sent",
              flags |-> [email_sent |-> r1 = "sent", slack_sent |-> r2 = "sent",
                         escalation_sent |-> e.result = "sent"]]

\* ------------------------------------------------------------------ state
VARIABLES
    webhook,      \* config.slack_webhook_url is set
    now,          \* the clock CURRENT_TIMESTAMP reads
    complaints,   \* the complaints table; the id of a row is its index
    pc,           \* position of the handler in flight
    job,          \* the locals of the handler in flight, kept after it ends
    started,      \* handlers entered so far
    processed,    \* per e-mail key: process_single_complaint calls ended
    errors,       \* results['errors'] of process_complaints
    fanouts       \* keys of the complaints whose notifications were started

vars ==
    <<webhook, now, complaints, pc, job, started, processed, errors, fanouts>>

\* --------------------------------------------------------------- database
\* insert_complaint: the exception it ends with, or "ok".  The parameter
\* tuple is built first (KeyError on a missing key), then bound (sqlite3
\* binds None, int, float, str and bytes only), then the UNIQUE constraint
\* on email_id is checked.
InsertOutcome(table, data) ==
    IF data.assigned_team = Missing THEN "KeyError"
    ELSE IF data.key_entities # "str" THEN "ProgrammingError"
    ELSE IF \E i \in 1..Len(table) : table[i].email_id = data.email_id
    THEN "ValueError"
    ELSE "ok"

\* Variant: the insert is not committed.
InsertComplaint_NoCommit(table, data) ==
    table

\* The row an accepted insert adds; status, created_at and updated_at take
\* the column defaults.
InsertComplaint(table, data) ==
    Append(table, [email_id |-> data.email_id,
                   mail |-> data.mail,
                   category |-> data.category,
                   priority |-> data.priority,
                   sentiment |-> data.sentiment,
                   assigned_team |-> data.assigned_team,
                   status |-> "New",
                   created_at |-> now,
                   updated_at |-> now])

\* get_complaint(complaint_id) is not None
HasComplaint(table, id) ==
    id \in 1..Len(table)

\* What stands for a row where there is none.
NoRow ==
    [email_id |-> <<"none", 0>>, mail |-> [subject |-> <<>>, body |-> <<>>],
     category |-> Missing, priority |-> Missing, sentiment |-> Missing,
     assigned_team |-> Missing, status |-> Missing,
     created_at |-> 0, updated_at |-> 0]

\* Variant: the update also writes the creation time.
UpdateStatus_ResetsCreated(table, id, status, team) ==
    IF id \in 1..Len(table)
    THEN [table EXCEPT ![id] =
            [@ EXCEPT !.status = status,
                      !.assigned_team = IF team = Missing THEN @ ELSE team,
                      !.created_at = now,
                      !.updated_at = now]]
    ELSE table

\* update_status: SET status, updated_at and, when a team is given,
\* assigned_team, on the row with this id; no other column is written.
\* team is Missing for None or an empty string.
UpdateStatus(table, id, status, team) ==
    IF id \in 1..Len(table)
    THEN [table EXCEPT ![id] =
            [@ EXCEPT !.status = status,
                      !.assigned_team = IF team = Missing THEN @ ELSE team,
                      !.updated_at = now]]
    ELSE table

\* get_complaint_by_email_id(email_id) is not None
ExistsByEmailId(table, email_id) ==
    \E i \in 1..Len(table) : table[i].email_id = email_id

\* ---------------------------------------------------------- state machine
\* Message-IDs of the e-mails in the mailbox; a web-form key is
\* <<"web-form", t>> with t the time of the request.
EmailKeys ==
    { <<"msg", 1>>, <<"msg", 2>> }

RequiredFields ==
    { "customer_name", "customer_email", "subject", "body" }

NoData ==
    [email_id |-> <<"none", 0>>, mail |-> [subject |-> <<>>, body |-> <<>>],
     custEmail |-> FALSE, category |-> Missing,
     priority |-> Missing, sentiment |-> Missing, assigned_team |-> Missing,
     key_entities |-> Missing, id |-> 0, status |-> Missing]

NoRouting ==
    [complaint_id |-> 0, assigned_team |-> Missing, team_email |-> Missing,
     priority |-> Missing, escalation_actions |-> <<>>, status |-> Missing]

NoAI ==
    [kind |-> "none", category |-> Missing, priority |-> Missing,
     sentiment |-> Missing, hasSummary |-> FALSE, entities |-> NoEntities]

\* The body of an update request without any of the three fields.
NoBody ==
    [status |-> Missing, assigned_team |-> Missing, priority |-> Missing]

NoJob ==
    [path |-> "none", email_id |-> <<"none", 0>>,
     mail |-> [subject |-> <<>>, body |-> <<>>], custEmail |-> FALSE,
     missing |-> "none", target |-> 0, before |-> NoRow,
     request |-> NoBody,
     ai |-> NoAI, cls |-> RaisedClassification, classified |-> FALSE,
     data |-> NoData, inserted |-> FALSE, routing |-> NoRouting,
     routed |-> FALSE, attempts |-> {}, fanout |-> "none",
     flags |-> [email_sent |-> FALSE, slack_sent |-> FALSE,
                escalation_sent |-> FALSE],
     response |-> [kind |-> "none"]]

Init ==
    /\ webhook \in BOOLEAN
    /\ now = 0
    /\ complaints = <<>>
    /\ pc = "idle"
    /\ job = NoJob
    /\ started = 0
    /\ processed = [k \in EmailKeys |-> 0]
    /\ errors = 0
    /\ fanouts = <<>>

\* The handler in flight ends: process_single_complaint returns or raises to
\* process_complaints (which counts the error), create_complaint answers.
Finish(j, resp) ==
    /\ pc' = "done"
    /\ job' = [j EXCEPT !.response = resp]
    /\ processed' = IF j.path = "email"
                    THEN [processed EXCEPT ![j.email_id] = @ + 1]
                    ELSE processed
    /\ errors' = IF j.path = "email" /\ resp.kind = "raised"
                 THEN errors + 1 ELSE errors

\* What the handler gives its caller when an exception reaches its outer
\* try: main.py re-raises, api.py answers 500.
ErrorResponse(j, exc) ==
    IF j.path = "email"
    THEN [kind |-> "raised", exception |-> exc]
    ELSE [kind |-> "error", code |-> 500, exception |-> exc]

\* process_complaints hands one unread e-mail to process_single_complaint.
EmailStart(key, mail, custEmail) ==
    /\ pc \in {"idle", "done"}
    /\ started < MaxRequests
    /\ started' = started + 1
    /\ pc' = "check"
    /\ job' = [NoJob EXCEPT !.path = "email", !.email_id = key,
                            !.mail = mail, !.custEmail = custEmail,
                            !.missing = IF mail.body = <<>> THEN "body"
                                        ELSE IF custEmail THEN "none"
                                        ELSE "customer_email"]
    /\ UNCHANGED <<webhook, now, complaints, processed, errors, fanouts>>

\* The idempotency check of process_single_complaint.
Check ==
    /\ pc = "check"
    /\ IF ExistsByEmailId(complaints, job.email_id)
       THEN Finish(job, [kind |-> "result", classified |-> 0, routed |-> 0,
                         notifications_sent |-> 0])
       ELSE /\ pc' = "classify"
            /\ UNCHANGED <<job, processed, errors>>
    /\ UNCHANGED <<webhook, now, complaints, started, fanouts>>

\* create_complaint up to the classifier call: the required fields, then the
\* e-mail data with a key made from the time.
WebStart(missing, mail) ==
    /\ pc \in {"idle", "done"}
    /\ started < MaxRequests
    /\ Len(complaints) < MaxStored
    /\ started' = started + 1
    /\ LET j == [NoJob EXCEPT !.path = "web",
                              !.email_id = <<"web-form", started + 1>>,
                              !.mail = mail, !.custEmail = TRUE,
                              !.missing = missing]
       IN  IF missing \in RequiredFields
           THEN Finish(j, [kind |-> "error", code |-> 400,
                           exception |-> "none"])
           ELSE /\ pc' = "classify"
                /\ job' = j
                /\ UNCHANGED <<processed, errors>>
    /\ UNCHANGED <<webhook, now, complaints, fanouts>>

\* The call of classifier.classify_complaint.
Classify(ai) ==
    /\ pc = "classify"
    /\ LET c == ClassifyComplaint(job.mail, ai)
           j == [job EXCEPT !.ai = ai, !.cls = c,
                            !.classified = ~c.raised]
       IN  IF c.raised
           THEN Finish(j, ErrorResponse(j, "classifier"))
           ELSE /\ pc' = "insert"
                /\ job' = j
                /\ UNCHANGED <<processed, errors>>
    /\ UNCHANGED <<webhook, now, complaints, started, fanouts>>

\* Variant: the record takes the three classified fields as the AI service
\* answered them.
ComplaintData_AsAnswered(j) ==
    IF j.path = "email"
    THEN [email_id |-> j.email_id, mail |-> j.mail,
          custEmail |-> j.custEmail,
          category |-> j.ai.category, priority |-> j.ai.priority,
          sentiment |-> j.ai.sentiment, assigned_team |-> Missing,
          key_entities |-> j.cls.key_entities, id |-> 0, status |-> Missing]
    ELSE [email_id |-> j.email_id, mail |-> j.mail,
          custEmail |-> j.custEmail,
          category |-> j.ai.category, priority |-> j.ai.priority,
          sentiment |-> j.ai.sentiment,
          assigned_team |-> DetermineAssignedTeam(j.cls.category),
          key_entities |-> "str", id |-> 0, status |-> Missing]

\* complaint_data as each handler builds it before the insert: main.py
\* spreads the classification over the e-mail fields, api.py picks the
\* classification's keys one by one, converts key_entities with str() and
\* adds the team.
ComplaintData(j) ==
    IF j.path = "email"
    THEN [email_id |-> j.email_id, mail |-> j.mail,
          custEmail |-> j.custEmail,
          category |-> j.cls.category, priority |-> j.cls.priority,
          sentiment |-> j.cls.sentiment, assigned_team |-> Missing,
          key_entities |-> j.cls.key_entities, id |-> 0, status |-> Missing]
    ELSE [email_id |-> j.email_id, mail |-> j.mail,
          custEmail |-> j.custEmail,
          category |-> j.cls.category, priority |-> j.cls.priority,
          sentiment |-> j.cls.sentiment,
          assigned_team |-> DetermineAssignedTeam(j.cls.category),
          key_entities |-> "str", id |-> 0, status |-> Missing]

\* The exception raised while complaint_data is built, or "ok":
\* create_complaint reads classification_result['summary'] and
\* ['suggested_action'].
BuildOutcome(j) ==
    IF j.path = "web" /\ ~j.cls.hasSummary THEN "KeyError" ELSE "ok"

\* Step 2 and 3 of the handlers: build complaint_data, insert it.
Insert ==
    /\ pc = "insert"
    /\ LET data == ComplaintData(job)
           out == IF BuildOutcome(job) # "ok" THEN BuildOutcome(job)
                  ELSE InsertOutcome(complaints, data)
       IN  IF out = "ok"
           THEN /\ complaints' = InsertComplaint(complaints, data)
                /\ job' = [job EXCEPT !.data = [data EXCEPT
                                         !.id = Len(complaints) + 1],
                                      !.inserted = TRUE]
                /\ pc' = "route"
                /\ UNCHANGED <<processed, errors>>
           ELSE /\ Finish(job, ErrorResponse(job, out))
                /\ UNCHANGED complaints
    /\ UNCHANGED <<webhook, now, started, fanouts>>

\* router.route_complaint and complaint_data.update(routing_result).
Route(lookupFails) ==
    /\ pc = "route"
    /\ LET r == RouteComplaint(job.data, lookupFails)
       IN  job' = [job EXCEPT !.routing = r, !.routed = TRUE,
                              !.data = [job.data EXCEPT
                                  !.assigned_team = r.assigned_team,
                                  !.priority = r.priority,
                                  !.status = r.status]]
    /\ pc' = "ack"
    /\ UNCHANGED <<webhook, now, complaints, started, processed, errors, fanouts>>

\* The customer acknowledgment: main.py sends it if the customer address is
\* not empty, api.py always.
Ack(smtpOk) ==
    /\ pc = "ack"
    /\ IF job.path = "web" \/ job.data.custEmail
       THEN job' = [job EXCEPT !.attempts = @ \cup
                       {[channel |-> "ack", to |-> "customer",
                         outcome |-> SendAcknowledgmentEmail(smtpOk),
                         msg |-> NoMessage]}]
       ELSE job' = job
    /\ pc' = "notify"
    /\ fanouts' = Append(fanouts, job.email_id)
    /\ UNCHANGED <<webhook, now, complaints, started, processed, errors>>

AckSent(j) ==
    \E a \in j.attempts : a.channel = "ack" /\ a.outcome = "sent"

\* Variant: one aggregate flag for both reported channels.
FanoutResponse_Aggregate(j, ret) ==
    IF j.path = "email"
    THEN [kind |-> "result", classified |-> 1, routed |-> 1,
          notifications_sent |-> IF AckSent(j) /\ ret THEN 2 ELSE 0]
    ELSE [kind |-> "json", code |-> 200, email_sent |-> AckSent(j) /\ ret,
          notification_sent |-> AckSent(j) /\ ret]

\* What the handler returns after the fan-out: main.py counts the
\* notifications, api.py reports email_sent and notification_sent.
FanoutResponse(j, ret) ==
    IF j.path = "email"
    THEN [kind |-> "result", classified |-> 1, routed |-> 1,
          notifications_sent |-> (IF AckSent(j) THEN 1 ELSE 0)
                                 + (IF ret THEN 1 ELSE 0)]
    ELSE [kind |-> "json", code |-> 200, email_sent |-> AckSent(j),
          notification_sent |-> ret]

\* router.send_team_notification and the end of the handler.
Notify(teamOk, slackOk, escOk) ==
    /\ pc = "notify"
    /\ LET n == RouterSendTeamNotification(job.routing, webhook,
                                           teamOk, slackOk, escOk)
           j == [job EXCEPT !.attempts = @ \cup n.attempts,
                            !.flags = n.flags,
                            !.fanout = IF n.logged THEN "completed"
                                       ELSE "aborted"]
       IN  Finish(j, FanoutResponse(j, n.ret))
    /\ UNCHANGED <<webhook, now, complaints, started, fanouts>>

Next ==
    \/ \E k \in EmailKeys, m \in InboxMails, c \in BOOLEAN :
          EmailStart(k, m, c)
    \/ Check
    \/ \E f \in RequiredFields \cup {"none"}, m \in WebMails : WebStart(f, m)
    \/ \E ai \in AIAnswers : Classify(ai)
    \/ Insert
    \/ \E f \in BOOLEAN : Route(f)
    \/ \E ok \in BOOLEAN : Ack(ok)
    \/ \E t \in BOOLEAN, s \in BOOLEAN, e \in BOOLEAN : Notify(t, s, e)

Spec ==
    Init /\ [][Next]_vars

\* ------------------------------------------------------ operator endpoints
\* The bodies of PUT requests: the fields status, assigned_team and
\* priority, Missing when the body does not have the key.  update_complaint
\* accepts any string as a status.
UpdateBodies ==
    { [status |-> Missing, assigned_team |-> Missing, priority |-> Missing],
      [status |-> "New", assigned_team |-> Missing, priority |-> Missing],
      [status |-> "In Progress", assigned_team |-> Missing,
       priority |-> Missing],
      [status |-> "Closed", assigned_team |-> Missing, priority |-> Missing],
      [status |-> Missing, assigned_team |-> "Billing Team",
       priority |-> Missing],
      [status |-> Missing, assigned_team |-> Missing, priority |-> "Urgent"] }

\* get_teams: the id of a team is its index.
TeamNames ==
    << "Billing Team", "Technical Team", "Refunds Team", "Delivery Team",
       "Account Team", "General Support Team" >>

\* Ids asked for: the stored complaint and one that does not exist.
ComplaintIds ==
    { 1, 2 }

\* The AI answers under which the stored complaint was created, and those
\* a reclassification gets.
CreationAnswers ==
    { ai \in AIAnswers : ai.kind = "json" /\ ai.hasSummary
                          /\ ai.category \in {"Product Defect",
                                               "Refund Request", "Spam"} }

ReclassifyAnswers ==
    { ai \in AIAnswers : \/ ai.kind \in {"error", "nojson"}
                         \/ ai.category \in {"Billing Issue", "Spam"} }

\* The jobs of create_complaint that end with a stored complaint.
CreatedJobs ==
    { j \in { [NoJob EXCEPT !.path = "web", !.email_id = <<"web-form", 1>>,
                            !.mail = m, !.custEmail = TRUE, !.ai = ai,
                            !.cls = ClassifyComplaint(m, ai)]
                : m \in WebMails, ai \in CreationAnswers } :
        BuildOutcome(j) = "ok" }

\* A table with one complaint, as create_complaint left it.
InitOps ==
    /\ webhook = FALSE
    /\ now = 0
    /\ complaints \in { InsertComplaint(<<>>, ComplaintData(j)) :
                          j \in CreatedJobs }
    /\ pc = "idle"
    /\ job = NoJob
    /\ started = 0
    /\ processed = [k \in EmailKeys |-> 0]
    /\ errors = 0
    /\ fanouts = << <<"web-form", 1>> >>

\* Time passes between two requests.
Tick ==
    /\ pc \in {"idle", "done"}
    /\ now < MaxTime
    /\ now' = now + 1
    /\ UNCHANGED <<webhook, complaints, pc, job, started, processed, errors,
                   fanouts>>

\* The locals of an operator handler as it starts: the complaint it is asked
\* about and the row get_complaint gives it.
OpJob(path, id) ==
    [NoJob EXCEPT !.path = path, !.target = id,
                  !.before = IF HasComplaint(complaints, id)
                             THEN complaints[id] ELSE NoRow]

NotFound ==
    [kind |-> "error", code |-> 404, exception |-> "none"]

\* An operator handler answers.
OpEnd(j, resp) ==
    /\ pc \in {"idle", "done"}
    /\ started < MaxOps
    /\ started' = started + 1
    /\ pc' = "done"
    /\ job' = [j EXCEPT !.response = resp]
    /\ UNCHANGED <<webhook, now, processed, errors, fanouts>>

\* update_complaint: of the fields status, assigned_team and priority of the
\* body (Missing: not in the body) the first two are passed to update_status.
UpdateComplaint(id, status, team, priority) ==
    LET j == [OpJob("update", id) EXCEPT
                !.request = [status |-> status, assigned_team |-> team,
                             priority |-> priority]]
    IN  IF ~HasComplaint(complaints, id)
        THEN /\ OpEnd(j, NotFound)
             /\ UNCHANGED complaints
        ELSE IF status = Missing /\ team = Missing /\ priority = Missing
        THEN /\ OpEnd(j, [kind |-> "json", code |-> 200])
             /\ UNCHANGED complaints
        ELSE /\ OpEnd(j, [kind |-> "json", code |-> 200])
             /\ complaints' = UpdateStatus(
                                 complaints, id,
                                 IF status = Missing
                                 THEN complaints[id].status ELSE status,
                                 team)

\* resolve_complaint
ResolveComplaint(id) ==
    LET j == OpJob("resolve", id)
    IN  /\ complaints' = UpdateStatus(complaints, id, "Resolved", Missing)
        /\ IF HasComplaint(complaints, id)
           THEN OpEnd(j, [kind |-> "json", code |-> 200])
           ELSE OpEnd(j, NotFound)

\* escalate_complaint: update_status with the status read when the priority
\* is not Urgent, then the message to the manager.
EscalateComplaint(id, smtpOk) ==
    LET j == OpJob("escalate", id)
    IN  IF ~HasComplaint(complaints, id)
        THEN /\ OpEnd(j, NotFound)
             /\ UNCHANGED complaints
        ELSE LET row == complaints[id]
                 escalation_data == [ComplaintNotice EXCEPT
                                       !.subject = "ESCALATION:"]
                 r == EmailSendTeamNotification(smtpOk)
             IN  /\ complaints' = IF row.priority # "Urgent"
                                  THEN UpdateStatus(complaints, id, row.status,
                                                    Missing)
                                  ELSE complaints
                 /\ OpEnd([j EXCEPT !.attempts =
                              {[channel |-> "escalation", to |-> ManagerEmail,
                                outcome |-> r,
                                msg |-> TeamNotificationMessage(
                                          escalation_data)]}],
                          [kind |-> "json", code |-> 200,
                           escalation_sent |-> r = "sent"])

\* reclassify_complaint: the classifier on the stored subject and body, then
\* update_status with the status read and the team of the new category.
ReclassifyComplaint(id, ai) ==
    LET j == OpJob("reclassify", id)
    IN  IF ~HasComplaint(complaints, id)
        THEN /\ OpEnd(j, NotFound)
             /\ UNCHANGED complaints
        ELSE LET row == complaints[id]
                 c   == ClassifyComplaint(row.mail, ai)
                 jc  == [j EXCEPT !.mail = row.mail, !.ai = ai, !.cls = c,
                                  !.classified = ~c.raised]
             IN  IF c.raised \/ ~c.hasSummary
                 THEN /\ OpEnd(jc, [kind |-> "error", code |-> 500,
                                    exception |-> IF c.raised THEN "classifier"
                                                  ELSE "KeyError"])
                      /\ UNCHANGED complaints
                 ELSE /\ complaints' = UpdateStatus(
                                          complaints, id, row.status,
                                          DetermineAssignedTeam(c.category))
                      /\ OpEnd(jc, [kind |-> "json", code |-> 200])

\* assign_to_team: complaint 0 stands for a body without complaint_id.
AssignToTeam(team_id, id) ==
    LET j == OpJob("assign", id)
    IN  IF id = 0
        THEN /\ OpEnd(j, [kind |-> "error", code |-> 400,
                          exception |-> "none"])
             /\ UNCHANGED complaints
        ELSE IF team_id \notin 1..Len(TeamNames)
        THEN /\ OpEnd(j, NotFound)
             /\ UNCHANGED complaints
        ELSE /\ complaints' = UpdateStatus(complaints, id, "Assigned",
                                           TeamNames[team_id])
             /\ IF HasComplaint(complaints, id)
                THEN OpEnd(j, [kind |-> "json", code |-> 200])
                ELSE OpEnd(j, NotFound)

NextOps ==
    \/ Tick
    \/ \E id \in ComplaintIds, b \in UpdateBodies :
          UpdateComplaint(id, b.status, b.assigned_team, b.priority)
    \/ \E id \in ComplaintIds : ResolveComplaint(id)
    \/ \E id \in ComplaintIds, ok \in BOOLEAN : EscalateComplaint(id, ok)
    \/ \E id \in ComplaintIds, ai \in ReclassifyAnswers :
          ReclassifyComplaint(id, ai)
    \/ \E t \in {1, Len(TeamNames) + 1}, id \in ComplaintIds \cup {0} :
          AssignToTeam(t, id)

\* The operator endpoints at work on a stored complaint.
SpecOps ==
    InitOps /\ [][NextOps]_vars

\* ------------------------------------------------------ concurrent workers
\* Two handlers in flight on one database: the monitoring thread of two
\* processes, or two requests in the threads of the API server.  In this
\* specification pc and job hold one entry per worker; each worker handles
\* one request, whose steps are those of the handlers above.
Workers ==
    { 1, 2 }

\* The messages the two workers are given, and what the AI service answers.
WorkerMails ==
    { m \in WebMails : m.subject = Subject1 }

WorkerAnswers ==
    { ai \in AIAnswers : \/ ai.kind = "error"
                         \/ ai.category = "Product Defect" }

InitWorkers ==
    /\ webhook = FALSE
    /\ now = 0
    /\ complaints = <<>>
    /\ pc = [w \in Workers |-> "idle"]
    /\ job = [w \in Workers |-> NoJob]
    /\ started = 0
    /\ processed = [k \in EmailKeys |-> 0]
    /\ errors = 0
    /\ fanouts = <<>>

\* The handler of worker w ends.
WFinish(w, j, resp) ==
    /\ pc' = [pc EXCEPT ![w] = "done"]
    /\ job' = [job EXCEPT ![w] = [j EXCEPT !.response = resp]]
    /\ processed' = IF j.path = "email"
                    THEN [processed EXCEPT ![j.email_id] = @ + 1]
                    ELSE processed
    /\ errors' = IF j.path = "email" /\ resp.kind = "raised"
                 THEN errors + 1 ELSE errors

\* Worker w moves on to the next step with the locals j.
WStep(w, j, next) ==
    /\ pc' = [pc EXCEPT ![w] = next]
    /\ job' = [job EXCEPT ![w] = j]
    /\ UNCHANGED <<processed, errors>>

\* process_complaints of worker w hands it an unread e-mail.
WEmailStart(w, key, mail) ==
    /\ pc[w] = "idle"
    /\ started' = started + 1
    /\ WStep(w, [NoJob EXCEPT !.path = "email", !.email_id = key,
                              !.mail = mail, !.custEmail = TRUE],
             "check")
    /\ UNCHANGED <<webhook, now, complaints, fanouts>>

\* create_complaint in worker w: the key is made from the clock reading.
WWebStart(w, mail) ==
    /\ pc[w] = "idle"
    /\ started' = started + 1
    /\ WStep(w, [NoJob EXCEPT !.path = "web",
                              !.email_id = <<"web-form", now>>,
                              !.mail = mail, !.custEmail = TRUE],
             "classify")
    /\ UNCHANGED <<webhook, now, complaints, fanouts>>

\* The idempotency check of process_single_complaint.
WCheck(w) ==
    /\ pc[w] = "check"
    /\ IF ExistsByEmailId(complaints, job[w].email_id)
       THEN WFinish(w, job[w], [kind |-> "result", classified |-> 0,
                                routed |-> 0, notifications_sent |-> 0])
       ELSE WStep(w, job[w], "classify")
    /\ UNCHANGED <<webhook, now, complaints, started, fanouts>>

WClassify(w, ai) ==
    /\ pc[w] = "classify"
    /\ LET c == ClassifyComplaint(job[w].mail, ai)
           j == [job[w] EXCEPT !.ai = ai, !.cls = c,
                               !.classified = ~c.raised]
       IN  IF c.raised
           THEN WFinish(w, j, ErrorResponse(j, "classifier"))
           ELSE WStep(w, j, "insert")
    /\ UNCHANGED <<webhook, now, complaints, started, fanouts>>

\* The exception the build and the insert of a handler end with, or "ok".
StoreOutcome(table, j) ==
    IF BuildOutcome(j) # "ok" THEN BuildOutcome(j)
    ELSE InsertOutcome(table, ComplaintData(j))

WInsert(w) ==
    /\ pc[w] = "insert"
    /\ LET data == ComplaintData(job[w])
           out  == StoreOutcome(complaints, job[w])
       IN  IF out = "ok"
           THEN /\ complaints' = InsertComplaint(complaints, data)
                /\ WStep(w, [job[w] EXCEPT
                               !.data = [data EXCEPT
                                           !.id = Len(complaints) + 1],
                               !.inserted = TRUE],
                         "route")
           ELSE /\ WFinish(w, job[w], ErrorResponse(job[w], out))
                /\ UNCHANGED complaints
    /\ UNCHANGED <<webhook, now, started, fanouts>>

WRoute(w, lookupFails) ==
    /\ pc[w] = "route"
    /\ LET r == RouteComplaint(job[w].data, lookupFails)
       IN  WStep(w, [job[w] EXCEPT !.routing = r, !.routed = TRUE,
                                   !.data = [job[w].data EXCEPT
                                       !.assigned_team = r.assigned_team,
                                       !.priority = r.priority,
                                       !.status = r.status]],
                 "ack")
    /\ UNCHANGED <<webhook, now, complaints, started, fanouts>>

WAck(w, smtpOk) ==
    /\ pc[w] = "ack"
    /\ WStep(w, IF job[w].path = "web" \/ job[w].data.custEmail
                THEN [job[w] EXCEPT !.attempts = @ \cup
                        {[channel |-> "ack", to |-> "customer",
                          outcome |-> SendAcknowledgmentEmail(smtpOk),
                          msg |-> NoMessage]}]
                ELSE job[w],
             "notify")
    /\ fanouts' = Append(fanouts, job[w].email_id)
    /\ UNCHANGED <<webhook, now, complaints, started>>

WNotify(w, smtpOk) ==
    /\ pc[w] = "notify"
    /\ LET n == RouterSendTeamNotification(job[w].routing, webhook,
                                           smtpOk, smtpOk, smtpOk)
           j == [job[w] EXCEPT !.attempts = @ \cup n.attempts,
                               !.flags = n.flags,
                               !.fanout = IF n.logged THEN "completed"
                                          ELSE "aborted"]
       IN  WFinish(w, j, FanoutResponse(j, n.ret))
    /\ UNCHANGED <<webhook, now, complaints, started, fanouts>>

\* Time passes while the workers run.
WTick ==
    /\ now < MaxTime
    /\ now' = now + 1
    /\ UNCHANGED <<webhook, complaints, pc, job, started, processed, errors,
                   fanouts>>

NextWorkers ==
    \/ WTick
    \/ \E w \in Workers, k \in EmailKeys, m \in WorkerMails :
          WEmailStart(w, k, m)
    \/ \E w \in Workers, m \in WorkerMails : WWebStart(w, m)
    \/ \E w \in Workers : WCheck(w)
    \/ \E w \in Workers, ai \in WorkerAnswers : WClassify(w, ai)
    \/ \E w \in Workers : WInsert(w)
    \/ \E w \in Workers, f \in BOOLEAN : WRoute(w, f)
    \/ \E w \in Workers, ok \in BOOLEAN : WAck(w, ok)
    \/ \E w \in Workers, ok \in BOOLEAN : WNotify(w, ok)

SpecWorkers ==
    InitWorkers /\ [][NextWorkers]_vars

\* -------------------------------------------------------------- dashboard
\* Times are in seconds, the resolution of CURRENT_TIMESTAMP.
SecondsPerHour == 3600

\* Variant: one threshold for every priority.
SlaThreshold_Flat(priority) ==
    24

\* sla_threshold of get_dashboard_stats, in hours.
SlaThreshold(priority) ==
    CASE priority = "Urgent" -> 2
      [] priority = "High" -> 4
      [] priority = "Medium" -> 24
      [] priority = "Low" -> 48
      [] OTHER -> 24

\* (updated - created).total_seconds()
ResponseSeconds(row) ==
    row.updated_at - row.created_at

\* response_time <= sla_threshold with response_time the seconds divided by
\* 3600: for whole seconds the quotient is at most the whole number of hours
\* exactly when the seconds are at most 3600 times that number.
WithinSla(row) ==
    ResponseSeconds(row) <= SlaThreshold(row.priority) * SecondsPerHour

\* get_complaints_by_status: the ids of the rows with this status.
GetComplaintsByStatus(table, status) ==
    { i \in 1..Len(table) : table[i].status = status }

\* round(count / total * 100, 1) in tenths of a percent: the nearest tenth,
\* the even one of two that are equally near.
RoundedRate(count, total) ==
    LET q == (1000 * count) \div total
        r == (1000 * count) % total
    IN  IF 2 * r < total THEN q
        ELSE IF 2 * r > total THEN q + 1
        ELSE IF q % 2 = 0 THEN q ELSE q + 1

\* sla_compliance_rate of get_dashboard_stats, in tenths of a percent.
SlaComplianceRate(table) ==
    LET resolved == GetComplaintsByStatus(table, "Resolved")
        sla_compliant == Cardinality({ i \in resolved : WithinSla(table[i]) })
    IN  IF resolved = {} THEN 1000
        ELSE RoundedRate(sla_compliant, Cardinality(resolved))

\* The resolved complaints the statistics are computed on, by priority and
\* seconds between creation and last update: at and a second past the 2 h of
\* Urgent, inside the 4 h of High, at the 24 h of Medium, a second past the
\* 48 h of Low.
ResolvedCases ==
    { <<"Urgent", 7200>>, <<"Urgent", 7201>>, <<"High", 7201>>,
      <<"Medium", 86400>>, <<"Low", 172801>> }

\* What matters of a stored complaint for the statistics.
StatsRowKinds ==
    { [status |-> "New", priority |-> "Medium", seconds |-> 0] }
      \cup { [status |-> "Resolved", priority |-> c[1], seconds |-> c[2]] :
                c \in ResolvedCases }

StatsRow(kind, id) ==
    [NoRow EXCEPT !.email_id = <<"web-form", id>>,
                  !.category = "General Inquiry",
                  !.priority = kind.priority,
                  !.sentiment = "Neutral",
                  !.assigned_team = "General Support Team",
                  !.status = kind.status,
                  !.created_at = 0,
                  !.updated_at = kind.seconds]

\* The tables the statistics are asked on.
StatsTables ==
    UNION { { [i \in 1..n |-> StatsRow(kinds[i], i)] :
                kinds \in [1..n -> StatsRowKinds] } : n \in 0..MaxRows }

InitStats ==
    /\ webhook = FALSE
    /\ now = 0
    /\ complaints \in StatsTables
    /\ pc = "idle"
    /\ job = NoJob
    /\ started = 0
    /\ processed = [k \in EmailKeys |-> 0]
    /\ errors = 0
    /\ fanouts = <<>>

\* get_dashboard_stats: the answer with the SLA compliance rate.
GetDashboardStats ==
    /\ pc = "idle"
    /\ pc' = "done"
    /\ job' = [NoJob EXCEPT
                 !.path = "stats",
                 !.response = [kind |-> "json", code |-> 200,
                               sla_compliance_rate |->
                                   SlaComplianceRate(complaints)]]
    /\ UNCHANGED <<webhook, now, complaints, started, processed, errors,
                   fanouts>>

NextStats ==
    GetDashboardStats

\* The dashboard statistics asked on a stored table.
SpecStats ==
    InitStats /\ [][NextStats]_vars

\* ------------------------------------------------------------- properties
ClassifierCalled ==
    job.ai.kind # "none"

FanoutRan ==
    job.fanout # "none"

Attempted(ch) ==
    \E a \in job.attempts : a.channel = ch

Sent(ch) ==
    \E a \in job.attempts : a.channel = ch /\ a.outcome = "sent"

Failed(ch) ==
    \E a \in job.attempts : a.channel = ch /\ a.outcome # "sent"

RowsWithKey(k) ==
    { i \in 1..Len(complaints) : complaints[i].email_id = k }

FanoutsOfKey(k) ==
    { i \in 1..Len(fanouts) : fanouts[i] = k }

\* C1: whatever the AI service does, the classification classify_complaint
\* returns has its category, priority and sentiment in their enumerations.
C1_ClassificationInEnumerations ==
    ClassifierCalled =>
        /\ job.cls.category \in CategorySet
        /\ job.cls.priority \in PrioritySet
        /\ job.cls.sentiment \in SentimentSet

\* C1 witness: the AI answered values outside the enumerations and the
\* classification carries the defaults.
C1_Witness ==
    /\ job.ai.kind = "json"
    /\ job.ai.category = "Spam"
    /\ job.ai.priority = "Critical"
    /\ job.cls.category = "General Inquiry"
    /\ job.cls.priority = "Medium"
    /\ job.cls.sentiment = "Neutral"

\* C2: classify_complaint never raises to its caller: after every call the
\* handler holds a classification and no handler ends with the classifier's
\* exception.
C2_ClassifierNeverRaises ==
    ClassifierCalled =>
        /\ ~job.cls.raised
        /\ job.classified
        /\ job.response.kind \in {"raised", "error"}
               => job.response.exception # "classifier"

\* C2 witness: the AI call failed and the caller went on with a
\* classification.
C2_Witness ==
    /\ job.ai.kind = "error"
    /\ pc = "insert"
    /\ job.classified
    /\ ~job.cls.raised

\* C3: an e-mail key processed twice by process_single_complaint has exactly
\* one row and exactly one notification fan-out, and the second processing
\* classifies, inserts and notifies nothing.
C3_ProcessedTwiceOneRecord ==
    \A k \in EmailKeys :
        processed[k] >= 2 =>
            /\ Cardinality(RowsWithKey(k)) = 1
            /\ Cardinality(FanoutsOfKey(k)) = 1
            /\ (pc = "done" /\ job.path = "email" /\ job.email_id = k)
                   => (~job.classified /\ ~job.inserted /\ job.attempts = {})

\* C4: a structurally valid complaint with a new key (one that reached the
\* classifier) ends classified, persisted and routed, never with an error.
C4_ValidComplaintNeverRejected ==
    (pc = "done" /\ ClassifierCalled) =>
        /\ job.response.kind \in {"result", "json"}
        /\ job.classified
        /\ job.inserted
        /\ job.routed

TeamTable(category) ==
    CASE category = "Billing Issue" -> "Billing Team"
      [] category = "Product Defect" -> "Technical Team"
      [] category = "Refund Request" -> "Refunds Team"
      [] category = "Technical Support" -> "Technical Team"
      [] category = "Delivery Problem" -> "Delivery Team"
      [] category = "Account Issue" -> "Account Team"
      [] category = "General Inquiry" -> "General Support Team"

EscalationTable(priority) ==
    CASE priority = "Urgent" -> <<"manager", "team">>
      [] priority = "High" -> <<"manager">>
      [] priority = "Medium" -> <<"team">>
      [] priority = "Low" -> <<"team">>

\* C5: a decision of route_complaint with status routed has the team of the
\* category table and the actions of the escalation table, for the complaint
\* in flight and for every category and priority of the enumerations.
C5_RoutingTables ==
    /\ (job.routed /\ job.routing.status = "routed") =>
           /\ job.routing.assigned_team = TeamTable(job.cls.category)
           /\ job.routing.escalation_actions = EscalationTable(job.cls.priority)
    /\ pc = "route" =>
           \A c \in CategorySet, p \in PrioritySet :
               LET r == RouteComplaint([job.data EXCEPT !.category = c,
                                                        !.priority = p], FALSE)
               IN  /\ r.assigned_team = TeamTable(c)
                   /\ r.escalation_actions = EscalationTable(p)

\* C5 witness: a High complaint of category Technical Support was routed.
C5_Witness ==
    /\ job.routed
    /\ job.routing.status = "routed"
    /\ job.cls.category = "Technical Support"
    /\ job.cls.priority = "High"
    /\ job.routing.assigned_team = "Technical Team"
    /\ job.routing.escalation_actions = <<"manager">>

\* C6: route_complaint is total: the handler always goes on after it, and a
\* failure inside it gives General Support Team, [team], routed_fallback.
C6_RoutingFallback ==
    /\ pc = "route" =>
           LET r == RouteComplaint(job.data, TRUE)
           IN  /\ r.assigned_team = "General Support Team"
               /\ r.escalation_actions = <<"team">>
               /\ r.status = "routed_fallback"
    /\ job.routed =>
           /\ job.routing.status \in {"routed", "routed_fallback"}
           /\ job.response.kind \in {"raised", "error"}
                  => job.response.exception # "router"
           /\ job.routing.status = "routed_fallback" =>
                  /\ job.routing.assigned_team = "General Support Team"
                  /\ job.routing.escalation_actions = <<"team">>

\* C6 witness: the lookup failed for a High billing complaint and the
\* handler went on with the fallback decision.
C6_Witness ==
    /\ pc = "ack"
    /\ job.cls.category = "Billing Issue"
    /\ job.cls.priority = "High"
    /\ job.routing.status = "routed_fallback"
    /\ job.routing.assigned_team = "General Support Team"

\* C7: when the fan-out has ended, every channel whose sending condition
\* holds was attempted, whatever the outcome of the other channels.
C7_ChannelsIndependent ==
    (pc = "done" /\ FanoutRan) =>
        /\ (job.path = "web" \/ job.data.custEmail) => Attempted("ack")
        /\ Attempted("team")
        /\ (webhook /\ job.routing.priority \in {"Urgent", "High"})
               => Attempted("slack")
        /\ ("manager" \in Elems(job.routing.escalation_actions))
               => Attempted("escalation")

\* C7 witness: the acknowledgment and the team e-mail failed, Slack and the
\* escalation were attempted all the same.
C7_Witness ==
    /\ pc = "done"
    /\ Failed("ack")
    /\ Failed("team")
    /\ Attempted("slack")
    /\ Attempted("escalation")

\* The key of the response that carries the flag of a channel.
FlagKey(ch) ==
    CASE ch = "ack" -> "email_sent"
      [] ch = "team" -> "notification_sent"
      [] ch = "slack" -> "slack_sent"
      [] ch = "escalation" -> "escalation_sent"

C9_NotificationsNeverTouchPersistence ==
    /\ [](job.attempts # {} =>
            /\ job.inserted
            /\ job.data.id \in 1..Len(complaints)
            /\ complaints[job.data.id].email_id = job.email_id)
    /\ [][(pc \in {"ack", "notify"}) => (complaints' = complaints)]_vars

\* C9 witness: every attempted channel failed and the row is in the table.
C9_Witness ==
    /\ pc = "done"
    /\ FanoutRan
    /\ \A a \in job.attempts : a.outcome = "failed"
    /\ Attempted("escalation")
    /\ complaints[job.data.id].email_id = job.email_id
    /\ complaints[job.data.id].priority = job.cls.priority

\* C10: Slack is attempted only with a webhook configured and a priority of
\* Urgent or High; for Medium and Low it is never attempted.
C10_SlackOnlyUrgentHigh ==
    Attempted("slack") =>
        /\ webhook
        /\ job.cls.priority \in {"Urgent", "High"}
        /\ job.routing.priority \in {"Urgent", "High"}

\* C10 witness: a High complaint with a webhook configured, Slack attempted.
C10_Witness ==
    /\ webhook
    /\ job.cls.priority = "High"
    /\ Attempted("slack")
    /\ pc = "done"

\* The attempts of a handler that were addressed to the manager.
ToManager(j) ==
    { a \in j.attempts : a.to = ManagerEmail }

\* The handler in flight is one of the two ingestion handlers.
Ingesting ==
    job.path \in {"email", "web"}

\* C11: during the notification fan-out a message is addressed to the
\* manager only if "manager" is among the escalation actions of the routing,
\* which is so for the priorities Urgent and High only; for a complaint
\* classified or routed Medium or Low nothing goes to the manager.
C11_ManagerOnlyOnEscalation ==
    Ingesting =>
      /\ ToManager(job) # {} =>
            /\ "manager" \in Elems(job.routing.escalation_actions)
            /\ job.routing.priority \in {"Urgent", "High"}
            /\ job.cls.priority \in {"Urgent", "High"}
      /\ (job.routed /\ job.routing.priority \in {"Medium", "Low"}) =>
            ToManager(job) = {}

C11_Witness ==
    /\ Ingesting
    /\ pc = "done"
    /\ job.fanout = "completed"
    /\ job.routing.priority = "High"
    /\ \E a \in ToManager(job) : a.outcome = "sent"

\* C12: the escalation message delivered to the manager during the fan-out
\* has a subject that starts with "ESCALATION:" and carries the reason of
\* the escalation.
C12_EscalationSubjectAndReason ==
    Ingesting =>
      \A a \in ToManager(job) :
         a.outcome = "sent" =>
           /\ a.msg.header = "ESCALATION:"
           /\ a.msg.reason

\* The AI answered, and its answer has no JSON object, a malformed one, or
\* one without a required key.
ParseFailure(ai) ==
    \/ ai.kind \in {"nojson", "badjson"}
    \/ /\ ai.kind = "json"
       /\ Missing \in {ai.category, ai.priority, ai.sentiment}

Triple(c) ==
    <<c.category, c.priority, c.sentiment>>

\* C13: after a parse failure the returned category, priority and sentiment
\* are those of the keyword rules on the lower-cased subject and body.
C13_ParseFailureUsesKeywordRules ==
    (job.classified /\ ParseFailure(job.ai)) =>
      Triple(job.cls) = Triple(GetFallbackClassification(job.mail))

\* C13, as the code has it: after a parse failure the keyword rules are not
\* consulted.  Without a JSON object, or with a malformed one, the result is
\* General Inquiry, Medium, Neutral; with a required key missing that field
\* takes its default (General Inquiry, Medium, Neutral) and a field the
\* answer has keeps its value when it is in its enumeration.
C13_ParseFailureGivesDefaults ==
    (job.classified /\ ParseFailure(job.ai)) =>
      /\ job.ai.kind \in {"nojson", "badjson"} =>
            Triple(job.cls) = <<"General Inquiry", "Medium", "Neutral">>
      /\ job.ai.kind = "json" =>
            /\ job.cls.category = IF job.ai.category \in CategorySet
                                  THEN job.ai.category ELSE "General Inquiry"
            /\ job.cls.priority = IF job.ai.priority \in PrioritySet
                                  THEN job.ai.priority ELSE "Medium"
            /\ job.cls.sentiment = IF job.ai.sentiment \in SentimentSet
                                   THEN job.ai.sentiment ELSE "Neutral"

C13_Witness ==
    /\ job.classified
    /\ job.ai.kind = "nojson"
    /\ job.mail.subject = Subject1
    /\ Triple(job.cls) = <<"General Inquiry", "Medium", "Neutral">>
    /\ GetFallbackClassification(job.mail).category = "Billing Issue"

\* C14: with the AI service unavailable, the complaint "Unusual charge" /
\* "Charged $150 for a service I never ordered. Unacceptable." is classified
\* Billing Issue, with priority High or Urgent, sentiment Angry or
\* Frustrated, and the amount "$150" among its entities.
C14_UnusualChargeFallback ==
    ( /\ job.classified
      /\ job.ai.kind = "error"
      /\ job.mail = [subject |-> Subject1, body |-> Body1] ) =>
      /\ job.cls.category = "Billing Issue"
      /\ job.cls.priority \in {"High", "Urgent"}
      /\ job.cls.sentiment \in {"Angry", "Frustrated"}
      /\ job.cls.entities.amount = <<"$","1","5","0">>

\* C15: for the complaint "Order #12345 issue" / "... Please call me at
\* (555) 123-4567." with no entities from the AI, the extracted order number
\* is exactly "12345" and the phone number exactly "(555) 123-4567".
C15_OrderAndPhoneExtracted ==
    ( /\ job.classified
      /\ job.ai.entities = NoEntities
      /\ job.mail = [subject |-> Subject5, body |-> Body5] ) =>
      /\ job.cls.entities.order_number = <<"1","2","3","4","5">>
      /\ job.cls.entities.phone_number =
           <<"(","5","5","5",")"," ","1","2","3","-","4","5","6","7">>

\* An operator handler of this kind has answered about a stored complaint.
Served(path) ==
    /\ pc = "done"
    /\ job.path = path
    /\ HasComplaint(complaints, job.target)

\* C16: a reclassification that succeeds overwrites the stored category,
\* priority, sentiment and assigned team with the newly computed values.
C16_ReclassifyOverwrites ==
    (Served("reclassify") /\ job.response.code = 200) =>
      LET row == complaints[job.target]
      IN  /\ row.category = job.cls.category
          /\ row.priority = job.cls.priority
          /\ row.sentiment = job.cls.sentiment
          /\ row.assigned_team = DetermineAssignedTeam(job.cls.category)

\* C17: a reclassification leaves the status, the email_id and the creation
\* time of the complaint as they were, whatever the new classification is.
C17_ReclassifyFrame ==
    Served("reclassify") =>
      LET row == complaints[job.target]
      IN  /\ row.status = job.before.status
          /\ row.email_id = job.before.email_id
          /\ row.created_at = job.before.created_at

C17_Witness ==
    /\ Served("reclassify")
    /\ job.response.code = 200
    /\ job.before.status = "Resolved"
    /\ complaints[job.target].status = "Resolved"
    /\ complaints[job.target].assigned_team # job.before.assigned_team
    /\ complaints[job.target].updated_at # job.before.updated_at
    /\ job.cls.category # job.before.category

\* C18: whatever update, assign, resolve, escalate and reclassify requests
\* are served, the status of a complaint stays one of New, In Progress,
\* Assigned and Resolved, and a Resolved complaint never goes back to New,
\* In Progress or Assigned.
C18_StatusLifecycle ==
    [][ \A i \in 1..Len(complaints) :
          /\ complaints'[i].status
               \in {"New", "In Progress", "Assigned", "Resolved"}
          /\ complaints[i].status = "Resolved" =>
               complaints'[i].status
                 \notin {"New", "In Progress", "Assigned"} ]_vars

\* C19: an escalation asked for a Resolved complaint does nothing: no
\* message goes to the manager and the record stays as it was.
C19_EscalateResolvedDoesNothing ==
    (Served("escalate") /\ job.before.status = "Resolved") =>
      /\ job.attempts = {}
      /\ complaints[job.target] = job.before

\* C20: a complaint that comes in without a required field is rejected
\* before any classification: the classifier is not called, no record is
\* inserted and no notification is sent.
C20_MissingFieldRejectedFirst ==
    (Ingesting /\ job.missing # "none") =>
      /\ ~ClassifierCalled
      /\ ~job.inserted
      /\ job.attempts = {}

\* The keyword families of the fallback classifier in the order of the
\* claim, each with its category.
KeywordFamilies ==
    << [words |-> BillingWords, category |-> "Billing Issue"],
       [words |-> DefectWords, category |-> "Product Defect"],
       [words |-> RefundWords, category |-> "Refund Request"],
       [words |-> TechnicalWords, category |-> "Technical Support"],
       [words |-> DeliveryWords, category |-> "Delivery Problem"],
       [words |-> AccountWords, category |-> "Account Issue"] >>

\* The families with a keyword in the lower-cased "subject body" of mail.
MatchedFamilies(mail) ==
    { f \in 1..Len(KeywordFamilies) :
        \E w \in KeywordFamilies[f].words :
            Contains(LowerStr(mail.subject \o <<" ">> \o mail.body), w) }

\* Where the first keyword of family f starts in the lower-cased text.
FirstKeywordAt(mail, f) ==
    SetMin({ i \in 1..(Len(mail.subject) + 1 + Len(mail.body)) :
               \E w \in KeywordFamilies[f].words :
                   /\ i + Len(w) - 1 <= Len(mail.subject) + 1 + Len(mail.body)
                   /\ SubSeq(LowerStr(mail.subject \o <<" ">> \o mail.body),
                             i, i + Len(w) - 1) = w })

\* The category of the first family, in the order of KeywordFamilies, with a
\* keyword in the text of each input message.
FirstFamilyCategories ==
    [ m \in InboxMails |->
        IF MatchedFamilies(m) = {} THEN "General Inquiry"
        ELSE KeywordFamilies[SetMin(MatchedFamilies(m))].category ]

\* The classification in job came from the keyword rules: the AI call
\* failed.
UsedFallback ==
    /\ Ingesting
    /\ job.classified
    /\ job.ai.kind = "error"

\* C26: the fallback classifier gives the category of the first keyword
\* family, in the order billing, defect, refund, technical, delivery,
\* account, that has a keyword in the text, and General Inquiry when no
\* family has one; where the keywords stand in the text does not matter.
C26_FirstFamilyWins ==
    UsedFallback => job.cls.category = FirstFamilyCategories[job.mail]

\* C26 witness: a text with keywords of three families, the keyword of the
\* family that wins standing last in the text.
C26_Witness ==
    /\ UsedFallback
    /\ Cardinality(MatchedFamilies(job.mail)) >= 3
    /\ job.cls.category = "Billing Issue"
    /\ \A f \in MatchedFamilies(job.mail) \ {1} :
          FirstKeywordAt(job.mail, f) < FirstKeywordAt(job.mail, 1)

\* C27: the routing decision route_complaint returns, with status routed or
\* routed_fallback, carries the priority of the classification it was
\* computed from.
C27_RoutingPriorityCopied ==
    (Ingesting /\ job.routed) =>
        /\ job.routing.status \in {"routed", "routed_fallback"}
        /\ job.routing.priority = job.cls.priority

\* The contact address of each team (config.py).
TeamContact(team) ==
    CASE team = "Billing Team" -> "billing@company.com"
      [] team = "Technical Team" -> "tech@company.com"
      [] team = "Refunds Team" -> "refunds@company.com"
      [] team = "Delivery Team" -> "delivery@company.com"
      [] team = "Account Team" -> "accounts@company.com"
      [] team = "General Support Team" -> "support@company.com"

\* C29: whenever the notification fan-out runs for a routed complaint, the
\* e-mail to the contact address of the assigned team is attempted, whatever
\* the priority and the escalation actions are.
C29_TeamAlwaysNotified ==
    (Ingesting /\ FanoutRan) =>
        /\ job.routed
        /\ \E a \in job.attempts :
              /\ a.channel = "team"
              /\ a.to = TeamContact(job.routing.assigned_team)

\* C29 witness: priority High, whose escalation actions are the manager
\* alone, and the team e-mail was attempted.
C29_Witness ==
    /\ Ingesting
    /\ FanoutRan
    /\ job.routing.priority = "High"
    /\ job.routing.escalation_actions = <<"manager">>
    /\ \E a \in job.attempts :
          /\ a.channel = "team"
          /\ a.to = TeamContact(job.routing.assigned_team)

\* C24: an update of an existing complaint whose body has a priority leaves
\* that priority in the stored complaint, which is what a read then returns.
C24_UpdateWritesPriority ==
    (Served("update") /\ job.request.priority # Missing) =>
        complaints[job.target].priority = job.request.priority

\* C28: an escalation of a complaint whose priority is not Urgent leaves the
\* stored priority Urgent.
C28_EscalateMakesUrgent ==
    (Served("escalate") /\ job.before.priority # "Urgent") =>
        complaints[job.target].priority = "Urgent"

\* The SLA thresholds of the claim, in hours.
ClaimedThreshold(priority) ==
    CASE priority = "Urgent" -> 2
      [] priority = "High" -> 4
      [] priority = "Medium" -> 24
      [] priority = "Low" -> 48

ResolvedRows ==
    { i \in 1..Len(complaints) : complaints[i].status = "Resolved" }

\* The Resolved complaints whose response time in hours is at most the
\* threshold of their priority.
CompliantRows ==
    { i \in ResolvedRows :
        complaints[i].updated_at - complaints[i].created_at
          <= 3600 * ClaimedThreshold(complaints[i].priority) }

StatsServed ==
    pc = "done" /\ job.path = "stats"

\* C22 as stated: the SLA compliance rate of the dashboard is 100 times the
\* number of compliant Resolved complaints over the number of Resolved
\* complaints, and 100 when no complaint is Resolved (rates are in tenths
\* of a percent).
C22_SlaRateIsQuotient ==
    StatsServed =>
        IF ResolvedRows = {}
        THEN job.response.sla_compliance_rate = 1000
        ELSE job.response.sla_compliance_rate * Cardinality(ResolvedRows)
                = 1000 * Cardinality(CompliantRows)

\* C22 amended: the rate is that quotient rounded to one decimal place, and
\* 100 when no complaint is Resolved.
C22_SlaRateIsRoundedQuotient ==
    StatsServed =>
        IF ResolvedRows = {}
        THEN job.response.sla_compliance_rate = 1000
        ELSE LET diff == job.response.sla_compliance_rate
                           * Cardinality(ResolvedRows)
                         - 1000 * Cardinality(CompliantRows)
             IN  /\ 2 * diff <= Cardinality(ResolvedRows)
                 /\ -2 * diff <= Cardinality(ResolvedRows)

\* C22 witness: three Resolved complaints of three priorities, each two
\* hours and a second old, of which the Urgent one is late: 66.7.
C22_Witness ==
    /\ StatsServed
    /\ Cardinality(ResolvedRows) = 3
    /\ Cardinality(CompliantRows) = 2
    /\ \E i \in ResolvedRows \ CompliantRows :
          /\ complaints[i].priority = "Urgent"
          /\ complaints[i].updated_at - complaints[i].created_at = 7201
    /\ job.response.sla_compliance_rate = 667

\* C30: once a complaint is Resolved, an operation that leaves its status
\* Resolved (reclassify, escalate, an update of the team alone) changes
\* neither its response time, updated_at minus created_at, nor its SLA
\* verdict.
C30_ResolvedResponseTimeFrozen ==
    [][ \A i \in 1..Len(complaints) :
          (complaints[i].status = "Resolved"
             /\ complaints'[i].status = "Resolved") =>
            /\ ResponseSeconds(complaints'[i]) = ResponseSeconds(complaints[i])
            /\ WithinSla(complaints'[i]) = WithinSla(complaints[i]) ]_vars

\* C23: after any sequence of the operator requests on a complaint that
\* create_complaint stored, every row of the table has its category in
\* CategorySet, its priority in PrioritySet and its sentiment in
\* SentimentSet, whatever the AI service answered.
C23_PersistedFieldsInEnumerations ==
    \A i \in 1..Len(complaints) :
        /\ complaints[i].category \in CategorySet
        /\ complaints[i].priority \in PrioritySet
        /\ complaints[i].sentiment \in SentimentSet

\* A reclassification whose AI answer is outside the three enumerations
\* was accepted, on a complaint stored with the values validation puts in
\* the place of such an answer.
C23_Witness ==
    /\ Served("reclassify")
    /\ job.response.code = 200
    /\ job.ai.category \notin CategorySet
    /\ job.ai.priority \notin PrioritySet
    /\ job.ai.sentiment \notin SentimentSet
    /\ job.before.category = "General Inquiry"
    /\ job.before.priority = "Medium"
    /\ job.before.sentiment = "Neutral"
    /\ C23_PersistedFieldsInEnumerations

\* C21: an insert under a key the table already holds is a success without
\* effect: the table is unchanged, no error is counted and the worker's
\* caller gets neither an exception nor an error response.
C21_DuplicateInsertIsNoOp ==
    [][\A w \in Workers :
          ( /\ pc[w] = "insert"
            /\ pc'[w] # "insert"
            /\ ExistsByEmailId(complaints, job[w].email_id) )
          => /\ complaints' = complaints
             /\ errors' = errors
             /\ job'[w].response.kind \notin {"raised", "error"}]_vars

\* Worker w reached the insert with complaint_data built.
InsertAttempted(w) ==
    /\ pc[w] \in {"route", "ack", "notify", "done"}
    /\ job[w].classified
    /\ BuildOutcome(job[w]) = "ok"

\* C25: when two workers handle the same key and both get to the insert,
\* the insert of the second ends with the conflict of the uniqueness
\* constraint and leaves the table as it is; no key has more than one row
\* and no key has more than one notification fan-out.
C25_ConcurrentDuplicateDetected ==
    /\ [](\A w \in Workers :
             /\ Cardinality(RowsWithKey(job[w].email_id)) <= 1
             /\ Cardinality(FanoutsOfKey(job[w].email_id)) <= 1)
    /\ [][\A w \in Workers, v \in Workers :
             ( /\ w # v
               /\ job[v].email_id = job[w].email_id
               /\ InsertAttempted(v)
               /\ pc[w] = "insert"
               /\ pc'[w] # "insert"
               /\ BuildOutcome(job[w]) = "ok" )
             => /\ job'[w].response = ErrorResponse(job[w], "ValueError")
                /\ complaints' = complaints]_vars

====
